---- MODULE Spec2Model ----
(***************************************************************************)
(* Model of src/bot.py: the users table of users.db, the four storage      *)
(* functions over it (ensure_user, get_user, add_balance,                   *)
(* set_last_bonus_today) and the handlers that call them (start, help_cmd,  *)
(* on_button, handle_webapp_data).                                          *)
(*                                                                          *)
(* Every storage function opens its own connection and commits before it    *)
(* returns, so one call is one atomic step of the model; a handler that     *)
(* makes several calls takes several steps, and the system clock may tick   *)
(* and the handler may stop (an exception, the process ending) between any  *)
(* two of them. Nothing in the storage layer orders the calls of two        *)
(* handler executions that share users.db, so their steps interleave        *)
(* freely; a run in which updates are handled one after the other is one    *)
(* of the interleavings.                                                    *)
(***************************************************************************)
EXTENDS Integers, Sequences, FiniteSets, TLC

\* ---------------------------------------------------------------- bounds
MaxHandlers == 2      \* handler executions in flight at once
MaxUpdates == 2       \* profile, bonus and deposit updates handled in a run
MaxTicks == 1         \* midnights the clock passes
MaxCalls == 4         \* direct storage calls in SpecLedger

\* ------------------------------------------------------------- constants
Reward == 5

UserIds == {1, 2}
Handlers == 1..MaxHandlers

NULL == "NULL"
\* user.username as Telegram gives it for user u: None or a string
Usernames(u) == IF u = 1 THEN {NULL, "ann"} ELSE {"bob"}

\* --------------------------------------------------------------- the clock
StartDate == <<2024, 12, 31>>

IsLeap(y) == (y % 4 = 0 /\ y % 100 # 0) \/ y % 400 = 0

DaysInMonth(y, m) ==
    IF m = 2 THEN (IF IsLeap(y) THEN 29 ELSE 28)
    ELSE IF m \in {4, 6, 9, 11} THEN 30 ELSE 31

NextDate(d) ==
    IF d[3] < DaysInMonth(d[1], d[2]) THEN <<d[1], d[2], d[3] + 1>>
    ELSE IF d[2] < 12 THEN <<d[1], d[2] + 1, 1>>
    ELSE <<d[1] + 1, 1, 1>>

RECURSIVE DateAfter(_, _)
DateAfter(d, n) == IF n = 0 THEN d ELSE DateAfter(NextDate(d), n - 1)

\* date.today() when the clock has passed clk midnights
date_today(clk) == DateAfter(StartDate, clk)

Pad2(n) == IF n < 10 THEN "0" \o ToString(n) ELSE ToString(n)

Pad4(n) ==
    IF n < 10 THEN "000" \o ToString(n)
    ELSE IF n < 100 THEN "00" \o ToString(n)
    ELSE IF n < 1000 THEN "0" \o ToString(n)
    ELSE ToString(n)

\* date.isoformat(): "YYYY-MM-DD"
isoformat(d) == Pad4(d[1]) \o "-" \o Pad2(d[2]) \o "-" \o Pad2(d[3])

\* ------------------------------------------------------- the users table
\* A table is a set of rows [user_id, username, balance, last_bonus].
HasRow(T, uid) == \E r \in T : r.user_id = uid

NewRow(uid, name) ==
    [user_id |-> uid, username |-> name, balance |-> 0, last_bonus |-> NULL]

\* username or ""
OrEmpty(username) == IF username = NULL THEN "" ELSE username

\* INSERT OR REPLACE in place of INSERT OR IGNORE: an existing row is replaced
\* by a fresh one.
InsertOrReplace(T, uid, name) ==
    {r \in T : r.user_id # uid} \cup {NewRow(uid, name)}

\* INSERT OR IGNORE INTO users ... VALUES (?, ?, 0, NULL): user_id is the
\* PRIMARY KEY, so a row with the same user_id makes the insert a no-op.
InsertOrIgnore(T, uid, name) ==
    IF HasRow(T, uid) THEN T ELSE T \cup {NewRow(uid, name)}

\* UPDATE users SET username=? WHERE user_id=?
UpdateUsername(T, uid, name) ==
    {IF r.user_id = uid THEN [r EXCEPT !.username = name] ELSE r : r \in T}

\* ensure_user without its INSERT: only the UPDATE runs.
ensure_user_update_only(T, uid, username) ==
    UpdateUsername(T, uid, OrEmpty(username))

ensure_user(T, uid, username) ==
    UpdateUsername(InsertOrIgnore(T, uid, OrEmpty(username)), uid, OrEmpty(username))

None == [found |-> FALSE, username |-> "", balance |-> 0, last_bonus |-> NULL]

get_user(T, uid) ==
    IF HasRow(T, uid)
    THEN LET r == CHOOSE x \in T : x.user_id = uid
         IN [found |-> TRUE, username |-> r.username, balance |-> r.balance,
             last_bonus |-> r.last_bonus]
    ELSE None

\* SET balance = ? in place of SET balance = balance + ?
add_balance_overwrite(T, uid, amount) ==
    {IF r.user_id = uid THEN [r EXCEPT !.balance = amount] ELSE r : r \in T}

\* The UPDATE of add_balance without its WHERE clause: every row is credited.
add_balance_no_where(T, uid, amount) ==
    {[r EXCEPT !.balance = @ + amount] : r \in T}

\* UPDATE users SET balance = balance + ? WHERE user_id=?
add_balance(T, uid, amount) ==
    {IF r.user_id = uid THEN [r EXCEPT !.balance = @ + amount] ELSE r : r \in T}

\* today = date.today().isoformat(); UPDATE users SET last_bonus=? WHERE user_id=?
set_last_bonus_today(T, uid, clk) ==
    {IF r.user_id = uid THEN [r EXCEPT !.last_bonus = isoformat(date_today(clk))]
     ELSE r : r \in T}

\* ------------------------------------------------ web-app payload values
\* data_dict.get("value"): a JSON number, a JSON string (here the sequence of
\* its characters) or null / missing.
IntV(n) == [t |-> "int", n |-> n, s |-> <<>>]
StrV(s) == [t |-> "str", n |-> 0, s |-> s]
NullV == [t |-> "null", n |-> 0, s |-> <<>>]

Values == {IntV(5), StrV(<<"-", "5">>), StrV(<<"1", "x">>), NullV}

Digits == {"0", "1", "2", "3", "4", "5", "6", "7", "8", "9"}

DigitVal(c) == CHOOSE k \in 0..9 : ToString(k) = c

RECURSIVE DigitsVal(_, _)
DigitsVal(s, acc) ==
    IF s = <<>> THEN acc ELSE DigitsVal(Tail(s), 10 * acc + DigitVal(Head(s)))

AllDigits(s) == s # <<>> /\ \A i \in 1..Len(s) : s[i] \in Digits

\* int(value) on the values drawn here: a number as it is, a string of an
\* optional sign and decimal digits parsed; None and any other string raise
\* (ok = FALSE).
PyInt(value) ==
    IF value.t = "int" THEN [ok |-> TRUE, n |-> value.n]
    ELSE IF value.t = "str" /\ value.s # <<>> /\ Head(value.s) \in {"-", "+"}
              /\ AllDigits(Tail(value.s))
         THEN [ok |-> TRUE,
               n |-> IF Head(value.s) = "-" THEN 0 - DigitsVal(Tail(value.s), 0)
                     ELSE DigitsVal(Tail(value.s), 0)]
    ELSE IF value.t = "str" /\ AllDigits(value.s)
         THEN [ok |-> TRUE, n |-> DigitsVal(value.s, 0)]
    ELSE [ok |-> FALSE, n |-> 0]

\* ------------------------------------------------------------- routing
\* callback_data the keyboards produce, and one no branch matches
Buttons ==
    {"main", "page2", "play", "profile", "stats", "help", "about", "support",
     "deposit", "deposit_tb", "deposit_bank", "deposit_crypto", "paid_tb",
     "paid_bank", "paid_crypto", "bonus", "unmatched"}

\* The if-chain of on_button: the branch callback_data takes. "static" is a
\* branch that only replies (or, for unmatched data, falls off the end).
ButtonBranch(data) ==
    IF data \in {"main", "page2", "play"} THEN "static"
    ELSE IF data = "profile" THEN "profile"
    ELSE IF data \in {"stats", "help", "about", "support", "deposit", "deposit_tb",
                      "deposit_bank", "deposit_crypto", "paid_tb", "paid_bank",
                      "paid_crypto"} THEN "static"
    ELSE IF data = "bonus" THEN "bonus"
    ELSE "static"

\* data_dict.get("action")
WebappActions == {"play", "deposit", "other", NULL}

\* The if / elif / else of handle_webapp_data.
WebappBranch(action) ==
    IF action = "play" THEN "static"
    ELSE IF action = "deposit" THEN "deposit"
    ELSE "static"

\* ------------------------------------------------------------------ state
VARIABLES
    users,     \* the users table of users.db
    clock,     \* midnights passed since StartDate
    task,      \* task[h]: the handler execution in slot h
    handled,   \* profile, bonus and deposit updates dispatched so far
    ensured,   \* user_ids ensure_user has run for (history)
    call       \* SpecLedger: the last direct storage call

vars == <<users, clock, task, handled, ensured, call>>

\* What a handler keeps of a get_user(...) result: nothing yet, None, or a row.
\* The bonus branch reads info["last_bonus"] in a later step; the profile and
\* deposit replies use the row in the step that fetched it.
Unread == [read |-> FALSE, found |-> FALSE, last_bonus |-> NULL]

Kept(info) == [read |-> TRUE, found |-> info.found, last_bonus |-> info.last_bonus]

Used(info) == [read |-> TRUE, found |-> info.found, last_bonus |-> NULL]

Idle ==
    [pc |-> "idle", kind |-> "none", user |-> 0, info |-> Unread, today |-> NULL,
     reply |-> "none", credited |-> FALSE, stamped |-> FALSE]

Finished(t) == t.pc \in {"idle", "done", "aborted"}

\* A direct call of a storage function: its arguments, the table before it
\* and what it returned (None but for get_user).
NoCall == [n |-> 0, op |-> "none", uid |-> 0, amount |-> 0, username |-> NULL,
           before |-> {}, ret |-> None]

Init ==
    /\ users = {}
    /\ clock = 0
    /\ task = [h \in Handlers |-> Idle]
    /\ handled = 0
    /\ ensured = {}
    /\ call = NoCall

\* The system clock passes midnight.
Tick ==
    /\ clock < MaxTicks
    /\ clock' = clock + 1
    /\ UNCHANGED <<users, task, handled, ensured, call>>

\* ------------------------------------------------- single-call handlers
\* start: ensure_user(user.id, user.username), then the welcome reply.
Start(u, name) ==
    /\ users' = ensure_user(users, u, name)
    /\ ensured' = ensured \cup {u}
    /\ UNCHANGED <<clock, task, handled, call>>

\* help_cmd and unknown: a reply, no storage call.
HelpCmd == UNCHANGED vars

\* on_button with callback_data whose branch only replies: ensure_user, then
\* the reply. Every such callback_data gives the same step.
ButtonStatic(u, name) ==
    /\ {data \in Buttons : ButtonBranch(data) = "static"} # {}
    /\ users' = ensure_user(users, u, name)
    /\ ensured' = ensured \cup {u}
    /\ UNCHANGED <<clock, task, handled, call>>

\* handle_webapp_data with an action other than "deposit": ensure_user, then
\* a reply quoting the value.
WebappStatic(u, name) ==
    /\ {action \in WebappActions : WebappBranch(action) = "static"} # {}
    /\ users' = ensure_user(users, u, name)
    /\ ensured' = ensured \cup {u}
    /\ UNCHANGED <<clock, task, handled, call>>

\* -------------------------------------------------- multi-call handlers
\* An update for user u arrives and its handler starts in the lowest free
\* slot: on_button taking the "profile" or "bonus" branch, or
\* handle_webapp_data taking the "deposit" branch. Its first storage call is
\* ensure_user(user.id, user.username).
Begin(h, kind, u, name) ==
    /\ handled < MaxUpdates
    /\ {data \in Buttons : ButtonBranch(data) = kind}
           \cup {action \in WebappActions : WebappBranch(action) = kind} # {}
    /\ kind # "static"
    /\ Finished(task[h])
    /\ \A g \in Handlers : g < h => ~Finished(task[g])
    /\ users' = ensure_user(users, u, name)
    /\ ensured' = ensured \cup {u}
    /\ task' = [task EXCEPT ![h] =
                    [Idle EXCEPT !.pc = IF kind = "deposit" THEN "deposit" ELSE "get",
                                 !.kind = kind, !.user = u]]
    /\ handled' = handled + 1
    /\ UNCHANGED <<clock, call>>

\* profile: info = get_user(user.id); info["username"], info["balance"] go
\* into the reply (a None info raises).
ProfileGet(h) ==
    /\ task[h].pc = "get" /\ task[h].kind = "profile"
    /\ LET info == get_user(users, task[h].user)
       IN task' = [task EXCEPT ![h].info = Used(info),
                               ![h].pc = IF info.found THEN "done" ELSE "aborted",
                               ![h].reply = IF info.found THEN "profile" ELSE "none"]
    /\ UNCHANGED <<users, clock, handled, ensured, call>>

\* bonus: info = get_user(user.id)
BonusGet(h) ==
    /\ task[h].pc = "get" /\ task[h].kind = "bonus"
    /\ task' = [task EXCEPT ![h].info = Kept(get_user(users, task[h].user)),
                            ![h].pc = "today"]
    /\ UNCHANGED <<users, clock, handled, ensured, call>>

\* The stored text compared with date.today() itself, not its isoformat():
\* a str never equals a date.
AlreadyClaimedDateObject(info, today) == FALSE

\* info["last_bonus"] == today
AlreadyClaimed(info, today) == info.last_bonus = today

\* bonus: today = date.today().isoformat(); if info["last_bonus"] == today,
\* the "already claimed" reply (a None info raises).
BonusToday(h) ==
    /\ task[h].pc = "today"
    /\ LET today == isoformat(date_today(clock))
       IN task' = [task EXCEPT
                ![h].today = today,
                ![h].pc = IF ~task[h].info.found THEN "aborted"
                          ELSE IF AlreadyClaimed(task[h].info, today) THEN "done"
                          ELSE "add",
                ![h].reply = IF task[h].info.found
                                /\ AlreadyClaimed(task[h].info, today)
                             THEN "already" ELSE "none"]
    /\ UNCHANGED <<users, clock, handled, ensured, call>>

\* bonus: add_balance(user.id, reward)
BonusAdd(h) ==
    /\ task[h].pc = "add"
    /\ users' = add_balance(users, task[h].user, Reward)
    /\ task' = [task EXCEPT ![h].credited = TRUE, ![h].pc = "stamp"]
    /\ UNCHANGED <<clock, handled, ensured, call>>

\* bonus: set_last_bonus_today(user.id), then the "claimed" reply.
BonusStamp(h) ==
    /\ task[h].pc = "stamp"
    /\ users' = set_last_bonus_today(users, task[h].user, clock)
    /\ task' = [task EXCEPT ![h].stamped = TRUE, ![h].pc = "done",
                            ![h].reply = "claimed"]
    /\ UNCHANGED <<clock, handled, ensured, call>>

\* deposit: add_balance(user.id, int(value)); int() raising ends the handler.
DepositAdd(h, value) ==
    /\ task[h].pc = "deposit"
    /\ LET p == PyInt(value)
       IN IF p.ok
          THEN /\ users' = add_balance(users, task[h].user, p.n)
               /\ task' = [task EXCEPT ![h].pc = "get"]
          ELSE /\ users' = users
               /\ task' = [task EXCEPT ![h].pc = "aborted"]
    /\ UNCHANGED <<clock, handled, ensured, call>>

\* deposit: get_user(user.id)['balance'] for the reply (a None raises).
DepositGet(h) ==
    /\ task[h].pc = "get" /\ task[h].kind = "deposit"
    /\ LET info == get_user(users, task[h].user)
       IN task' = [task EXCEPT ![h].info = Used(info),
                               ![h].pc = IF info.found THEN "done" ELSE "aborted",
                               ![h].reply = IF info.found THEN "deposited" ELSE "none"]
    /\ UNCHANGED <<users, clock, handled, ensured, call>>

\* A handler stops between two of its steps: a storage call or a reply
\* raises, or the process ends.
Abort(h) ==
    /\ ~Finished(task[h])
    /\ task' = [task EXCEPT ![h].pc = "aborted"]
    /\ UNCHANGED <<users, clock, handled, ensured, call>>

Next ==
    \/ Tick
    \/ HelpCmd
    \/ \E u \in UserIds : \E name \in Usernames(u) : Start(u, name)
    \/ \E u \in UserIds : \E name \in Usernames(u) : ButtonStatic(u, name)
    \/ \E u \in UserIds : \E name \in Usernames(u) : WebappStatic(u, name)
    \/ \E h \in Handlers, kind \in {"profile", "bonus", "deposit"}, u \in UserIds :
          \E name \in Usernames(u) : Begin(h, kind, u, name)
    \/ \E h \in Handlers : ProfileGet(h)
    \/ \E h \in Handlers : BonusGet(h)
    \/ \E h \in Handlers : BonusToday(h)
    \/ \E h \in Handlers : BonusAdd(h)
    \/ \E h \in Handlers : BonusStamp(h)
    \/ \E h \in Handlers, value \in Values : DepositAdd(h, value)
    \/ \E h \in Handlers : DepositGet(h)
    \/ \E h \in Handlers : Abort(h)

Spec == Init /\ [][Next]_vars

\* ------------------------------------------- the storage functions alone
\* Arguments of the direct calls.
Amounts == {-5, 0, 3}

AnyUsernames == {NULL, "ann", "bob"}

CallEnsure(u, name) ==
    /\ call.n < MaxCalls
    /\ users' = ensure_user(users, u, name)
    /\ ensured' = ensured \cup {u}
    /\ call' = [NoCall EXCEPT !.n = call.n + 1, !.op = "ensure_user", !.uid = u,
                              !.username = name, !.before = users]
    /\ UNCHANGED <<clock, task, handled>>

CallGet(u) ==
    /\ call.n < MaxCalls
    /\ call' = [NoCall EXCEPT !.n = call.n + 1, !.op = "get_user", !.uid = u,
                              !.before = users, !.ret = get_user(users, u)]
    /\ UNCHANGED <<users, clock, task, handled, ensured>>

CallAdd(u, amount) ==
    /\ call.n < MaxCalls
    /\ users' = add_balance(users, u, amount)
    /\ call' = [NoCall EXCEPT !.n = call.n + 1, !.op = "add_balance", !.uid = u,
                              !.amount = amount, !.before = users]
    /\ UNCHANGED <<clock, task, handled, ensured>>

CallSetLastBonus(u) ==
    /\ call.n < MaxCalls
    /\ users' = set_last_bonus_today(users, u, clock)
    /\ call' = [NoCall EXCEPT !.n = call.n + 1, !.op = "set_last_bonus_today",
                              !.uid = u, !.before = users]
    /\ UNCHANGED <<clock, task, handled, ensured>>

NextLedger ==
    \/ Tick
    \/ \E u \in UserIds, name \in AnyUsernames : CallEnsure(u, name)
    \/ \E u \in UserIds : CallGet(u)
    \/ \E u \in UserIds, amount \in Amounts : CallAdd(u, amount)
    \/ \E u \in UserIds : CallSetLastBonus(u)

SpecLedger == Init /\ [][NextLedger]_vars

\* --------------------------------------------------------------- claims
RowsOf(T, uid) == {r \in T : r.user_id = uid}

OtherRows(T, uid) == {r \in T : r.user_id # uid}

\* C5: ensure_user on an unseen user_id creates exactly one account, with
\* balance 0 and no last_bonus; on an existing user_id, whatever its balance
\* and last_bonus and whatever the username passed, it keeps that one record
\* with the same balance and last_bonus; no other account changes.
C5_EnsureIdempotent ==
    call.op = "ensure_user" =>
        /\ Cardinality(RowsOf(users, call.uid)) = 1
        /\ \A r \in RowsOf(users, call.uid) :
              IF HasRow(call.before, call.uid)
              THEN \E b \in RowsOf(call.before, call.uid) :
                      r.balance = b.balance /\ r.last_bonus = b.last_bonus
              ELSE r.balance = 0 /\ r.last_bonus = NULL
        /\ OtherRows(users, call.uid) = OtherRows(call.before, call.uid)

C5_Witness ==
    /\ call.op = "ensure_user"
    /\ \E b \in RowsOf(call.before, call.uid), r \in RowsOf(users, call.uid) :
          /\ b.balance # 0 /\ b.last_bonus # NULL
          /\ r.username # b.username

\* C8: add_balance with amount >= 0 on an existing account raises its balance
\* by exactly amount and changes nothing else (its username and last_bonus,
\* every other account); on a user_id with no account it changes nothing and
\* creates no account.
C8_AddBalanceFrame ==
    (call.op = "add_balance" /\ call.amount >= 0) =>
        /\ {r.user_id : r \in users} = {r.user_id : r \in call.before}
        /\ Cardinality(users) = Cardinality(call.before)
        /\ \A b \in RowsOf(call.before, call.uid) :
              \E r \in users :
                 /\ r.user_id = b.user_id /\ r.username = b.username
                 /\ r.last_bonus = b.last_bonus
                 /\ r.balance = b.balance + call.amount
        /\ OtherRows(users, call.uid) = OtherRows(call.before, call.uid)

C8_Witness ==
    /\ call.op = "add_balance" /\ call.amount > 0
    /\ \E b \in RowsOf(call.before, call.uid) : b.last_bonus # NULL
    /\ OtherRows(users, call.uid) # {}

\* C3 (as claimed): add_balance with a negative amount is rejected: the
\* account's balance is what it was before the call.
C3_NegativeRejected ==
    (call.op = "add_balance" /\ call.amount < 0) =>
        \A b \in RowsOf(call.before, call.uid) :
            \E r \in RowsOf(users, call.uid) : r.balance = b.balance

BonusTasks(u, d) ==
    {h \in Handlers : /\ task[h].kind = "bonus" /\ task[h].user = u
                      /\ task[h].today = d /\ task[h].pc = "done"}

\* C1 (as claimed): of the bonus claims handled for one user with one date,
\* exactly one is answered "claimed", the others "already claimed", and the
\* reward is added once.
C1_ExactlyOneClaimed ==
    \A u \in UserIds, k \in 0..MaxTicks :
        LET S == BonusTasks(u, isoformat(date_today(k)))
        IN (\E h \in S : task[h].reply = "claimed") =>
              /\ Cardinality({h \in S : task[h].reply = "claimed"}) = 1
              /\ Cardinality({h \in S : task[h].credited}) = 1

\* C2 (as claimed): a bonus claim that has ended, replied or stopped, has
\* either both added the reward and set last_bonus, or done neither.
C2_NoPartialClaim ==
    \A h \in Handlers :
        (task[h].kind = "bonus" /\ Finished(task[h])) =>
            (task[h].credited <=> task[h].stamped)

\* C4 (as claimed): every balance is non-negative and no step lowers one.
C4_BalanceMonotone ==
    [][\A r2 \in users' :
          /\ r2.balance >= 0
          /\ \A r \in RowsOf(users, r2.user_id) : r2.balance >= r.balance]_vars

\* C6: a bonus claim that reads a last_bonus equal to the date it then takes
\* as today is answered "already claimed" and neither adds to the balance nor
\* sets last_bonus.
C6_AlreadyClaimedNoMutation ==
    \A h \in Handlers :
        (/\ task[h].kind = "bonus" /\ task[h].info.found
         /\ task[h].today # NULL /\ task[h].info.last_bonus = task[h].today) =>
            /\ task[h].pc = "done" /\ task[h].reply = "already"
            /\ ~task[h].credited /\ ~task[h].stamped

C6_Witness ==
    \E h \in Handlers :
        /\ task[h].kind = "bonus" /\ task[h].pc = "done"
        /\ task[h].reply = "already"
        /\ task[h].today # NULL /\ task[h].info.last_bonus = task[h].today

\* C7 (as claimed): the step that sets last_bonus for a claim sets it to the
\* today that the claim compared with the stored last_bonus.
C7_StampsComparedDate ==
    [][\A h \in Handlers :
          (task[h].pc = "stamp" /\ task'[h].pc = "done") =>
              \A r \in RowsOf(users', task[h].user) : r.last_bonus = task[h].today]_vars

\* C9: get_user gives None exactly for the user_ids ensure_user never ran
\* for, and no handler ever gets None from get_user.
C9_NeverNotFound ==
    /\ \A u \in UserIds : (get_user(users, u) = None) <=> (u \notin ensured)
    /\ \A h \in Handlers : task[h].info.read => task[h].info.found

C9_Witness ==
    /\ \E h \in Handlers : task[h].kind = "deposit" /\ task[h].info.read
    /\ \E h \in Handlers : task[h].kind = "profile" /\ task[h].info.read
    /\ \E u \in UserIds : u \notin ensured

\* C10: a step changes the balance or last_bonus of user u's account only if
\* it is a step, after ensure_user, of u's own bonus handler that did not
\* find the bonus claimed, or of u's own deposit handler.
C10_OnlyOwnBonusOrDeposit ==
    [][\A u \in UserIds :
          \A r \in RowsOf(users, u), r2 \in RowsOf(users', u) :
             (r.balance # r2.balance \/ r.last_bonus # r2.last_bonus) =>
                 \E h \in Handlers :
                    /\ task[h].user = u /\ ~Finished(task[h])
                    /\ task'[h] # task[h]
                    /\ \/ task[h].kind = "deposit"
                       \/ /\ task[h].kind = "bonus"
                          /\ task[h].info.last_bonus # task[h].today]_vars

C10_Witness ==
    /\ \E r \in users : r.balance # 0 /\ r.last_bonus # NULL
    /\ \E r \in users : r.balance = 0 /\ r.last_bonus = NULL
    /\ \E h \in Handlers : task[h].kind = "profile" /\ task[h].pc = "done"

====
